---- MODULE Spec2Model ----
(***************************************************************************)
(* A model of the oauth2 package of oauth2c:                               *)
(*   - Request.Get / Request.ParseJARM   (internal/oauth2/request.go)      *)
(*   - Request.AuthenticateClient        (internal/oauth2/request.go)      *)
(*   - WaitForCallback, RequestToken     (the package's main file)         *)
(* Three specifications share the module, one per component: SpecJARM,     *)
(* SpecCallback and SpecAuth.  Each leaves the other components' state     *)
(* untouched.                                                              *)
(***************************************************************************)
EXTENDS Integers, Sequences, FiniteSets, TLC

VARIABLES
    \* ---- Response Verifier (ParseJARM) ----
    r,          \* the Request: [JARM, Query, Form], maps from key to value
    calls       \* the ParseJARM calls made on r so far, oldest first:
                \* [sk, ek, response, before, after, err, log]

VARIABLES
    \* ---- Callback Listener (WaitForCallback) ----
    mux,        \* http.DefaultServeMux: the invocation whose handler is
                \* registered for "/callback", 0 when none is
    crashed,    \* the process has panicked
    pc,         \* per invocation, where the calling goroutine is
    wg,         \* per invocation, the WaitGroup counter
    srv,        \* per invocation, the state of its http.Server
    spc,        \* per invocation, where the server goroutine is
    request,    \* per invocation, the named result `request`
    err,        \* per invocation, the named result `err`
    timers,     \* per invocation, the pending AfterFunc timers
    inflight,   \* the handler calls in progress
    responses,  \* the HTTP responses written so far, oldest first
    result      \* per invocation, what WaitForCallback returned

VARIABLES
    \* ---- Client Authenticator and Token Exchanger ----
    areq,       \* a Request under construction: [Form, Key, Cert, Headers]
    acalls,     \* the AuthenticateClient calls made on areq, oldest first
    tok         \* the outcome of RequestToken, once it has been called

jarmVars == <<r, calls>>

authVars == <<areq, acalls, tok>>

cbVars == <<mux, crashed, pc, wg, srv, spc, request, err, timers, inflight,
            responses, result>>

vars == <<jarmVars, cbVars, authVars>>

----------------------------------------------------------------------------
(* Bounds *)

\* how many times ParseJARM is invoked on one Request
MaxCalls == 2

\* how many invocations of WaitForCallback the process makes
MaxInvocations == 2

\* how many HTTP requests reach the listeners in total
MaxRequests == 2

\* how many times AuthenticateClient is invoked on one Request
MaxAuthCalls == 2

----------------------------------------------------------------------------
(* Strings and tokens.  A string value is a record; a compact JWS or JWE   *)
(* is a string whose form says how the jose parsers see it.                *)

NoKey == "nil"
Keys == {"k1", "k2"}
KeyArgs == Keys \cup {NoKey}

Text(t) ==
    [form |-> "text", txt |-> t, sigKey |-> NoKey, encKey |-> NoKey,
     cty |-> "", innerOK |-> FALSE, claims |-> 0]

EmptyStr == Text("")

\* a compact signed token, signed with key k, carrying claim set c
JWS(k, c) ==
    [form |-> "jws", txt |-> "", sigKey |-> k, encKey |-> NoKey,
     cty |-> "", innerOK |-> FALSE, claims |-> c]

\* a compact encrypted token for key ek with content type cty; its
\* plaintext is JWS(k, c) when ok, and not a signed token otherwise
JWE(ek, cty, ok, k, c) ==
    [form |-> "jwe", txt |-> "", sigKey |-> k, encKey |-> ek,
     cty |-> cty, innerOK |-> ok, claims |-> c]

StringVal(s) == [type |-> "string", s |-> s]
NumberVal == [type |-> "number", s |-> EmptyStr]

EmptyMap == [k \in {} |-> NumberVal]

ClaimIds == 1..5

\* the JSON object a token's payload decodes to
ClaimsOf(c) ==
    CASE c = 1 -> ("code" :> StringVal(Text("abc")))
      [] c = 2 -> ("code" :> StringVal(Text("abc"))) @@ ("response" :> NumberVal)
      [] c = 3 -> ("code" :> StringVal(Text("abc"))) @@ ("response" :> StringVal(EmptyStr))
      [] c = 4 -> ("response" :> StringVal(Text("junk")))
      [] c = 5 -> ("response" :> StringVal(JWS("k1", 1)))
      [] OTHER -> EmptyMap

SignedTokens == {JWS(k, c) : k \in Keys, c \in ClaimIds}

NestedTokens ==
    {JWE(ek, "JWT", ok, k, c) : ek \in Keys, ok \in BOOLEAN, k \in Keys, c \in {1, 4}}
    \cup {JWE(ek, "other", TRUE, k, 1) : ek \in Keys, k \in Keys}

\* values the callback's query string may carry under "response"
QueryResponses == {EmptyStr, Text("junk")} \cup SignedTokens \cup NestedTokens

\* values the form body may carry under "response"
FormResponses == {EmptyStr, Text("junk"), JWS("k2", 1)}

----------------------------------------------------------------------------
(* Request.Get *)

MapGet(m, key) == IF key \in DOMAIN m THEN m[key] ELSE EmptyStr

\* Get looking at the URL query before the claim map
Get_QueryFirst(req, key) ==
    IF MapGet(req.Query, key) # EmptyStr
    THEN MapGet(req.Query, key)
    ELSE IF key \in DOMAIN req.JARM /\ req.JARM[key].type = "string"
         THEN req.JARM[key].s
         ELSE MapGet(req.Form, key)

Get(req, key) ==
    IF key \in DOMAIN req.JARM /\ req.JARM[key].type = "string"
    THEN req.JARM[key].s
    ELSE IF MapGet(req.Query, key) # EmptyStr
         THEN MapGet(req.Query, key)
         ELSE MapGet(req.Form, key)

----------------------------------------------------------------------------
(* The jose operations ParseJARM calls *)

NoError == [kind |-> "none", causes |-> <<>>]
Err(kind, causes) == [kind |-> kind, causes |-> causes]

\* jwt.ParseSignedAndEncrypted: a JWE whose content type is JWT
ParseSignedAndEncrypted(s) ==
    IF s.form # "jwe" THEN [ok |-> FALSE, err |-> "nested: not a JWE"]
    ELSE IF s.cty # "JWT" THEN [ok |-> FALSE, err |-> "nested: content type is not JWT"]
    ELSE [ok |-> TRUE, err |-> ""]

\* jwt.ParseSigned: a JWS
ParseSigned(s) ==
    IF s.form # "jws" THEN [ok |-> FALSE, err |-> "flat: not a JWS"]
    ELSE [ok |-> TRUE, err |-> ""]

\* NestedJSONWebToken.Decrypt: decrypt with the key, then parse the
\* plaintext as a signed token
Decrypt(s, ek) ==
    IF s.encKey # ek THEN [ok |-> FALSE, err |-> "decrypt: wrong key", token |-> EmptyStr]
    ELSE IF ~s.innerOK THEN [ok |-> FALSE, err |-> "decrypt: inner not a JWS", token |-> EmptyStr]
    ELSE [ok |-> TRUE, err |-> "", token |-> JWS(s.sigKey, s.claims)]

\* JSONWebToken.Claims: verify the signature, then unmarshal the payload
\* into dest (json.Unmarshal keeps the entries dest already holds)
Claims(token, sk, dest) ==
    IF token.sigKey # sk THEN [ok |-> FALSE, err |-> "verify: signature", dest |-> dest]
    ELSE [ok |-> TRUE, err |-> "", dest |-> ClaimsOf(token.claims) @@ dest]

----------------------------------------------------------------------------
(* Request.ParseJARM *)

\* ParseJARM without the reset of line 95
ResetJARM_Kept(old) == old

\* the claim map ParseJARM starts from (line 95)
ResetJARM(old) == EmptyMap

Out(jarm, e, log) == [JARM |-> jarm, err |-> e, log |-> log]

\* lines 110-116 with verification skipped when no signing key is given
VerifyStep_SkipWithoutKey(token, sk, jarm, log) ==
    IF sk = NoKey
    THEN Out(jarm, NoError, log)
    ELSE LET c == Claims(token, sk, jarm)
         IN IF ~c.ok
            THEN Out(c.dest, Err("verify", <<c.err>>), Append(log, "verify"))
            ELSE Out(c.dest, NoError, Append(log, "verify"))

\* lines 110-116: the signing key check and the verification of token
VerifyStep(token, sk, jarm, log) ==
    IF sk = NoKey
    THEN Out(jarm, Err("no signing key", <<>>), log)
    ELSE LET c == Claims(token, sk, jarm)
         IN IF ~c.ok
            THEN Out(c.dest, Err("verify", <<c.err>>), Append(log, "verify"))
            ELSE Out(c.dest, NoError, Append(log, "verify"))

\* lines 102-108 with the signing key looked at before the encryption key
NestedStep_SigningKeyFirst(response, sk, ek, jarm, log) ==
    IF sk = NoKey
    THEN Out(jarm, Err("no signing key", <<>>), log)
    ELSE IF ek # NoKey
    THEN LET d == Decrypt(response, ek)
         IN IF ~d.ok
            THEN Out(jarm, Err("decrypt", <<d.err>>), Append(log, "decrypt"))
            ELSE VerifyStep(d.token, sk, jarm, Append(log, "decrypt"))
    ELSE Out(jarm, Err("no encryption key", <<>>), log)

\* lines 102-108: a nested token needs the encryption key
NestedStep(response, sk, ek, jarm, log) ==
    IF ek # NoKey
    THEN LET d == Decrypt(response, ek)
         IN IF ~d.ok
            THEN Out(jarm, Err("decrypt", <<d.err>>), Append(log, "decrypt"))
            ELSE VerifyStep(d.token, sk, jarm, Append(log, "decrypt"))
    ELSE Out(jarm, Err("no encryption key", <<>>), log)

\* line 100 keeping only the last parse failure
CombinedParseError_LastOnly(e, e2) == Err("parse", <<e2>>)

\* line 100: multierror.Append(err, err2), wrapped
CombinedParseError(e, e2) == Err("parse", <<e, e2>>)

\* ParseJARM refusing a signed-only response when an encryption key
\* was supplied
ParseJARM_EncryptionRequired(req, sk, ek) ==
    LET response == Get(req, "response")
        jarm == ResetJARM(req.JARM)
    IN IF response = EmptyStr
       THEN Out(jarm, NoError, <<>>)
       ELSE LET n == ParseSignedAndEncrypted(response)
            IN IF ~n.ok
               THEN LET f == ParseSigned(response)
                    IN IF ~f.ok
                       THEN Out(jarm, CombinedParseError(n.err, f.err),
                                <<"parseNested", "parseSigned">>)
                       ELSE IF ek # NoKey
                       THEN Out(jarm, Err("not encrypted", <<>>),
                                <<"parseNested", "parseSigned">>)
                       ELSE VerifyStep(response, sk, jarm,
                                <<"parseNested", "parseSigned">>)
               ELSE NestedStep(response, sk, ek, jarm, <<"parseNested">>)

ParseJARM(req, sk, ek) ==
    LET response == Get(req, "response")
        jarm == ResetJARM(req.JARM)
    IN IF response = EmptyStr
       THEN Out(jarm, NoError, <<>>)
       ELSE LET n == ParseSignedAndEncrypted(response)
            IN IF ~n.ok
               THEN LET f == ParseSigned(response)
                    IN IF ~f.ok
                       THEN Out(jarm, CombinedParseError(n.err, f.err),
                                <<"parseNested", "parseSigned">>)
                       ELSE VerifyStep(response, sk, jarm,
                                <<"parseNested", "parseSigned">>)
               ELSE NestedStep(response, sk, ek, jarm, <<"parseNested">>)

----------------------------------------------------------------------------
(* Authentication methods and configuration *)

ClientSecretBasicAuthMethod == "client_secret_basic"
ClientSecretPostAuthMethod == "client_secret_post"
ClientSecretJwtAuthMethod == "client_secret_jwt"
PrivateKeyJwtAuthMethod == "private_key_jwt"
SelfSignedTLSAuthMethod == "self_signed_tls_client_auth"
TLSClientAuthMethod == "tls_client_auth"
NoneAuthMethod == "none"

AuthMethods ==
    {ClientSecretBasicAuthMethod, ClientSecretPostAuthMethod,
     ClientSecretJwtAuthMethod, PrivateKeyJwtAuthMethod,
     SelfSignedTLSAuthMethod, TLSClientAuthMethod, NoneAuthMethod,
     "unknown_method"}

JwtBearerClientAssertion == "urn:ietf:params:oauth:client-assertion-type:jwt-bearer"

\* two clients, each with its own secret
ClientConfigs ==
    {[ClientID |-> c[1], ClientSecret |-> c[2], GrantType |-> g, AuthMethod |-> m] :
        c \in {<<"c1", "s1">>, <<"c2", "s2">>},
        g \in {"authorization_code", "client_credentials"},
        m \in AuthMethods}

Endpoint == "https://as/token"
MTLSEndpoint == "https://as/mtls/token"
BadEndpoint == "://malformed"

\* url.Values with one value per key
NoForm == [k \in {} |-> ""]
FormSet(form, k, v) == (k :> v) @@ form
FormGet(form, k) == IF k \in DOMAIN form THEN form[k] ELSE ""

\* the hc.Transport values AuthenticateClient tells apart
Transports == {"not_http_transport", "nil_tls_config", "no_certificates",
               "leaf_certificate", "unparsable_certificate"}

NoCert == "nil"

\* SignJWT with a SecretSigner or a JWKSigner: the assertion, the key
\* used and the error
SignJWT(cconfig, signs) ==
    IF ~signs
    THEN [assertion |-> "", key |-> NoKey, err |-> "sign failed"]
    ELSE IF cconfig.AuthMethod = ClientSecretJwtAuthMethod
    THEN [assertion |-> "assertion.hmac", key |-> cconfig.ClientSecret, err |-> ""]
    ELSE [assertion |-> "assertion.jwk", key |-> "jwk", err |-> ""]

----------------------------------------------------------------------------
(* Request.AuthenticateClient *)

AuthOut(req, form, key, cert, endpoint, e, panicked) ==
    [req |-> [req EXCEPT !.Form = form, !.Key = key, !.Cert = cert],
     endpoint |-> endpoint, err |-> e, panic |-> panicked]

\* lines 36-47 and 48-59: sign the client assertion and set the two
\* assertion fields; r.Key is assigned from SignJWT in either outcome
AssertionBranch(req, endpoint, cconfig, signs) ==
    LET s == SignJWT(cconfig, signs)
    IN IF s.err # ""
       THEN AuthOut(req, req.Form, s.key, req.Cert, endpoint, s.err, FALSE)
       ELSE AuthOut(req,
                FormSet(FormSet(req.Form, "client_assertion_type", JwtBearerClientAssertion),
                        "client_assertion", s.assertion),
                s.key, req.Cert, endpoint, "", FALSE)

\* lines 33-35 without the client_secret field
SecretPostBranch_NoSecret(req, endpoint, cconfig) ==
    AuthOut(req, FormSet(req.Form, "client_id", cconfig.ClientID),
        req.Key, req.Cert, endpoint, "", FALSE)

\* lines 33-35
SecretPostBranch(req, endpoint, cconfig) ==
    AuthOut(req,
        FormSet(FormSet(req.Form, "client_id", cconfig.ClientID),
                "client_secret", cconfig.ClientSecret),
        req.Key, req.Cert, endpoint, "", FALSE)

\* lines 60-68: client_id, the mutual-TLS endpoint, and the leaf
\* certificate of the transport when it has one
TLSBranch(req, mtlsEndpoint, cconfig, transport) ==
    LET form == FormSet(req.Form, "client_id", cconfig.ClientID)
    IN CASE transport = "not_http_transport" ->
                AuthOut(req, form, req.Key, req.Cert, mtlsEndpoint, "", FALSE)
         [] transport = "nil_tls_config" ->
                AuthOut(req, form, req.Key, req.Cert, mtlsEndpoint, "", TRUE)
         [] transport = "no_certificates" ->
                AuthOut(req, form, req.Key, req.Cert, mtlsEndpoint, "", FALSE)
         [] transport = "leaf_certificate" ->
                AuthOut(req, form, req.Key, "leaf", mtlsEndpoint, "", FALSE)
         [] OTHER ->
                AuthOut(req, form, req.Key, NoCert, mtlsEndpoint, "", FALSE)

\* AuthenticateClient whose switch treats an unmatched method as
\* client_secret_post
AuthenticateClient_UnknownAsPost(req, endpoint, mtlsEndpoint, cconfig, signs, transport) ==
    CASE cconfig.AuthMethod \in {ClientSecretJwtAuthMethod, PrivateKeyJwtAuthMethod} ->
            AssertionBranch(req, endpoint, cconfig, signs)
      [] cconfig.AuthMethod \in {TLSClientAuthMethod, SelfSignedTLSAuthMethod} ->
            TLSBranch(req, mtlsEndpoint, cconfig, transport)
      [] cconfig.AuthMethod = ClientSecretBasicAuthMethod ->
            AuthOut(req, req.Form, req.Key, req.Cert, endpoint, "", FALSE)
      [] OTHER ->
            SecretPostBranch(req, endpoint, cconfig)

AuthenticateClient(req, endpoint, mtlsEndpoint, cconfig, signs, transport) ==
    CASE cconfig.AuthMethod = ClientSecretPostAuthMethod ->
            SecretPostBranch(req, endpoint, cconfig)
      [] cconfig.AuthMethod \in {ClientSecretJwtAuthMethod, PrivateKeyJwtAuthMethod} ->
            AssertionBranch(req, endpoint, cconfig, signs)
      [] cconfig.AuthMethod \in {TLSClientAuthMethod, SelfSignedTLSAuthMethod} ->
            TLSBranch(req, mtlsEndpoint, cconfig, transport)
      [] OTHER ->
            AuthOut(req, req.Form, req.Key, req.Cert, endpoint, "", FALSE)

----------------------------------------------------------------------------
(* RequestToken *)

RequestTokenParams == [Code : {"", "abc123"}, RedirectURL : {"", "http://localhost/callback"}]

NoTokenResponse == [AccessToken |-> "", ExpiresIn |-> 0, TokenType |-> ""]

\* JSON values and response bodies: whether the body can be read, whether
\* it is well-formed JSON, and the members of its object
JSONString(s) == [type |-> "string", str |-> s, num |-> 0]
JSONNumber(n) == [type |-> "number", str |-> "", num |-> n]
NoMembers == [k \in {} |-> JSONNumber(0)]
Body(readable, wellFormed, members) ==
    [readable |-> readable, wellFormed |-> wellFormed, members |-> members]

\* {"access_token":"T","token_type":"Bearer","expires_in":3600}
TokenBody ==
    Body(TRUE, TRUE,
         ("access_token" :> JSONString("T")) @@ ("token_type" :> JSONString("Bearer"))
            @@ ("expires_in" :> JSONNumber(3600)))
\* {"access_token":"T"}
AccessOnlyBody == Body(TRUE, TRUE, ("access_token" :> JSONString("T")))
\* {"access_token":"T","expires_in":"soon"}
MistypedBody ==
    Body(TRUE, TRUE,
         ("access_token" :> JSONString("T")) @@ ("expires_in" :> JSONString("soon")))
\* {"access_token":
MalformedBody == Body(TRUE, FALSE, NoMembers)
\* a body whose read fails
UnreadableBody == Body(FALSE, FALSE, NoMembers)
\* {"error":"invalid_grant"}
ErrorBody == Body(TRUE, TRUE, ("error" :> JSONString("invalid_grant")))
NoBody == Body(TRUE, FALSE, NoMembers)

\* the replies of the token endpoint RequestToken tells apart
HTTPReplies ==
    {[kind |-> "transport_error", status |-> 0, body |-> NoBody]}
    \cup [kind : {"reply"}, status : {200},
          body : {TokenBody, AccessOnlyBody, MistypedBody, MalformedBody, UnreadableBody}]
    \cup [kind : {"reply"}, status : {400, 401}, body : {ErrorBody}]

\* the errors RequestToken returns
TokenErr(kind, code) == [kind |-> kind, ErrorCode |-> code]
NoTokenErr == TokenErr("none", "")

\* ParseError: the provider Error carried by a reply
ParseError(reply) ==
    LET m == reply.body.members
    IN TokenErr("provider",
                IF reply.body.readable /\ reply.body.wellFormed
                   /\ "error" \in DOMAIN m /\ m["error"].type = "string"
                THEN m["error"].str ELSE "")

\* json.Unmarshal into a TokenResponse that accepts a member of the wrong
\* type
Unmarshal_IgnoreMismatch(body, dest) ==
    LET m == body.members
        s(name, old) == IF name \in DOMAIN m THEN m[name].str ELSE old
    IN IF ~body.wellFormed
       THEN [value |-> dest, err |-> "syntax"]
       ELSE [value |-> [AccessToken |-> s("access_token", dest.AccessToken),
                        ExpiresIn |-> IF "expires_in" \in DOMAIN m
                                      THEN m["expires_in"].num ELSE dest.ExpiresIn,
                        TokenType |-> s("token_type", dest.TokenType)],
             err |-> ""]

\* json.Unmarshal(body, &response): a body that is not well-formed JSON
\* is refused before dest is touched; otherwise every member that names a
\* field and has its type is stored, a member of the wrong type is
\* skipped and reported, and unknown members are ignored
Unmarshal(body, dest) ==
    LET m == body.members
        has(name, type) == name \in DOMAIN m /\ m[name].type = type
        mismatch == \/ ("access_token" \in DOMAIN m /\ ~has("access_token", "string"))
                    \/ ("expires_in" \in DOMAIN m /\ ~has("expires_in", "number"))
                    \/ ("token_type" \in DOMAIN m /\ ~has("token_type", "string"))
    IN IF ~body.wellFormed
       THEN [value |-> dest, err |-> "syntax"]
       ELSE [value |-> [AccessToken |-> IF has("access_token", "string")
                                        THEN m["access_token"].str ELSE dest.AccessToken,
                        ExpiresIn |-> IF has("expires_in", "number")
                                      THEN m["expires_in"].num ELSE dest.ExpiresIn,
                        TokenType |-> IF has("token_type", "string")
                                      THEN m["token_type"].str ELSE dest.TokenType],
             err |-> IF mismatch THEN "type" ELSE ""]

\* lines 159-175: the form of the token request
TokenForm(cconfig, params) ==
    LET f0 == FormSet(NoForm, "grant_type", cconfig.GrantType)
        f1 == IF cconfig.AuthMethod = ClientSecretPostAuthMethod
              THEN FormSet(FormSet(f0, "client_id", cconfig.ClientID),
                           "client_secret", cconfig.ClientSecret)
              ELSE f0
        f2 == IF params.RedirectURL # "" THEN FormSet(f1, "redirect_uri", params.RedirectURL) ELSE f1
    IN IF params.Code # "" THEN FormSet(f2, "code", params.Code) ELSE f2

\* lines 186-190: the headers of the token request
TokenHeaders(cconfig) ==
    IF cconfig.AuthMethod = ClientSecretBasicAuthMethod
    THEN {"Authorization: Basic", "Content-Type: application/x-www-form-urlencoded"}
    ELSE {"Content-Type: application/x-www-form-urlencoded"}

ZeroRequest == [Method |-> "", URL |-> "", Headers |-> {}, Form |-> NoForm, Key |-> NoKey, Cert |-> NoCert]

\* what RequestToken returns, with the number of requests it sent
TokenOut(req, resp, e, sent) == [request |-> req, response |-> resp, err |-> e, sent |-> sent]

\* lines 196-204 with a second attempt after a transport failure or a
\* reply other than 200
TokenReply_Retry(req, reply) ==
    IF reply.kind = "transport_error"
    THEN TokenOut(req, NoTokenResponse, TokenErr("transport", ""), 2)
    ELSE IF reply.status # 200
    THEN TokenOut(req, NoTokenResponse, ParseError(reply), 2)
    ELSE IF ~reply.body.readable
    THEN TokenOut(req, NoTokenResponse, TokenErr("read", ""), 1)
    ELSE LET u == Unmarshal(reply.body, NoTokenResponse)
         IN IF u.err # ""
            THEN TokenOut(req, u.value, TokenErr("parse", u.err), 1)
            ELSE TokenOut(req, u.value, NoTokenErr, 1)

\* lines 196-214: hc.Do is called once, and its outcome is classified
TokenReply(req, reply) ==
    IF reply.kind = "transport_error"
    THEN TokenOut(req, NoTokenResponse, TokenErr("transport", ""), 1)
    ELSE IF reply.status # 200
    THEN TokenOut(req, NoTokenResponse, ParseError(reply), 1)
    ELSE IF ~reply.body.readable
    THEN TokenOut(req, NoTokenResponse, TokenErr("read", ""), 1)
    ELSE LET u == Unmarshal(reply.body, NoTokenResponse)
         IN IF u.err # ""
            THEN TokenOut(req, u.value, TokenErr("parse", u.err), 1)
            ELSE TokenOut(req, u.value, NoTokenErr, 1)

RequestToken(cconfig, tokenEndpoint, params, reply) ==
    LET form == TokenForm(cconfig, params)
    IN IF tokenEndpoint = BadEndpoint
       THEN TokenOut([ZeroRequest EXCEPT !.Form = form], NoTokenResponse,
                     TokenErr("build", ""), 0)
       ELSE TokenReply([ZeroRequest EXCEPT !.Form = form, !.Method = "POST",
                            !.URL = tokenEndpoint, !.Headers = TokenHeaders(cconfig)],
                       reply)

NoClientConfig == [ClientID |-> "", ClientSecret |-> "", GrantType |-> "", AuthMethod |-> ""]

NoReply == [kind |-> "none", status |-> 0, body |-> NoBody]

NoTokenCall == [called |-> FALSE, cconfig |-> NoClientConfig, reply |-> NoReply,
                out |-> TokenOut(ZeroRequest, NoTokenResponse, NoTokenErr, 0)]

IdleAuthState ==
    /\ areq = ZeroRequest
    /\ acalls = <<>>
    /\ tok = NoTokenCall

----------------------------------------------------------------------------
(* WaitForCallback *)

Invocations == 1..MaxInvocations

URL(path, e, d, h, t, code) ==
    [path |-> path, error |-> e, error_description |-> d, error_hint |-> h,
     trace_id |-> t, code |-> code]

NoURL == URL("", "", "", "", "", "")

\* the zero Request, as far as WaitForCallback fills it
NoRequest == [method |-> "", url |-> NoURL]

NilError == [kind |-> "nil", ErrorCode |-> "", Description |-> "", Hint |-> "", TraceID |-> ""]

\* what srv.ListenAndServe returns when it cannot listen
ListenError == [kind |-> "listen", ErrorCode |-> "", Description |-> "", Hint |-> "", TraceID |-> ""]

\* lines 82-87: the Error built from the callback's query parameters
CallbackError(u) ==
    [kind |-> "provider", ErrorCode |-> u.error, Description |-> u.error_description,
     Hint |-> u.error_hint, TraceID |-> u.trace_id]

HTTPRequest(m, u) == [method |-> m, url |-> u]

\* the HTTP requests a browser may send to a listener: a success
\* redirect, error redirects with and without the optional parameters, a
\* redirect with a description but an empty error, and a request to
\* another path
HTTPRequests ==
    {HTTPRequest("GET", URL("/callback", "", "", "", "", "abc123")),
     HTTPRequest("POST", URL("/callback", "", "", "", "", "abc123")),
     HTTPRequest("GET", URL("/callback", "access_denied", "D", "H", "T", "")),
     HTTPRequest("GET", URL("/callback", "access_denied", "", "", "", "")),
     HTTPRequest("GET", URL("/callback", "", "D", "", "", "abc123")),
     HTTPRequest("GET", URL("/other", "access_denied", "D", "H", "T", "abc123"))}

IdleCallback ==
    /\ mux = 0
    /\ crashed = FALSE
    /\ pc = [i \in Invocations |-> "idle"]
    /\ wg = [i \in Invocations |-> 0]
    /\ srv = [i \in Invocations |-> "new"]
    /\ spc = [i \in Invocations |-> "none"]
    /\ request = [i \in Invocations |-> NoRequest]
    /\ err = [i \in Invocations |-> NilError]
    /\ timers = [i \in Invocations |-> 0]
    /\ inflight = {}
    /\ responses = <<>>
    /\ result = [i \in Invocations |->
            [returned |-> FALSE, request |-> NoRequest, err |-> NilError, pending |-> 0]]

\* lines 75-77: wg.Add(1) and http.HandleFunc("/callback", ...), which
\* registers on the process-wide http.DefaultServeMux and panics when the
\* pattern is already registered
Register(i) ==
    /\ ~crashed
    /\ pc[i] = "idle"
    /\ wg' = [wg EXCEPT ![i] = 1]
    /\ IF mux # 0
       THEN /\ crashed' = TRUE
            /\ pc' = [pc EXCEPT ![i] = "panicked"]
            /\ mux' = mux
       ELSE /\ crashed' = FALSE
            /\ pc' = [pc EXCEPT ![i] = "registered"]
            /\ mux' = i
    /\ UNCHANGED <<srv, spc, request, err, timers, inflight, responses, result>>

\* line 99: go func() { ... }()
GoServe(i) ==
    /\ ~crashed
    /\ pc[i] = "registered"
    /\ pc' = [pc EXCEPT ![i] = "waiting"]
    /\ spc' = [spc EXCEPT ![i] = "start"]
    /\ UNCHANGED <<mux, crashed, wg, srv, request, err, timers, inflight, responses, result>>

\* line 102: srv.ListenAndServe() binds the address and serves
ListenOK(i) ==
    /\ ~crashed
    /\ spc[i] = "start"
    /\ srv[i] = "new"
    /\ srv' = [srv EXCEPT ![i] = "listening"]
    /\ spc' = [spc EXCEPT ![i] = "serving"]
    /\ UNCHANGED <<mux, crashed, pc, wg, request, err, timers, inflight, responses, result>>

\* lines 100-104: srv.ListenAndServe() cannot bind the address; the error
\* is stored in err and the deferred wg.Done() runs
ListenFail(i) ==
    /\ ~crashed
    /\ spc[i] = "start"
    /\ srv[i] = "new"
    /\ srv' = [srv EXCEPT ![i] = "failed"]
    /\ err' = [err EXCEPT ![i] = ListenError]
    /\ spc' = [spc EXCEPT ![i] = "done"]
    /\ wg' = [wg EXCEPT ![i] = 0]
    /\ UNCHANGED <<mux, crashed, pc, request, timers, inflight, responses, result>>

\* a request reaches listener i; srv has no Handler of its own, so the
\* request is routed by http.DefaultServeMux: to the registered handler
\* for "/callback", to 404 otherwise
Arrive(i, req) ==
    /\ ~crashed
    /\ srv[i] = "listening"
    /\ Len(responses) + Cardinality(inflight) < MaxRequests
    /\ IF req.url.path = "/callback" /\ mux # 0
       THEN /\ inflight' = inflight \cup
                    {[id |-> Len(responses) + Cardinality(inflight) + 1,
                      at |-> i, owner |-> mux, req |-> req, step |-> "capture"]}
            /\ UNCHANGED responses
       ELSE /\ responses' = Append(responses,
                    [at |-> i, owner |-> 0, req |-> req, status |-> 404])
            /\ UNCHANGED inflight
    /\ UNCHANGED <<mux, crashed, pc, wg, srv, spc, request, err, timers, result>>

\* lines 78-79: the handler stores the method and URL in the owner's
\* named result
HandlerCapture(h) ==
    /\ ~crashed
    /\ h \in inflight
    /\ h.step = "capture"
    /\ request' = [request EXCEPT ![h.owner] = [method |-> h.req.method, url |-> h.req.url]]
    /\ inflight' = (inflight \ {h}) \cup {[h EXCEPT !.step = "respond"]}
    /\ UNCHANGED <<mux, crashed, pc, wg, srv, spc, err, timers, responses, result>>

\* lines 81-94: the status the handler answers with
HandlerStatus(u) == IF u.error # "" THEN 400 ELSE 200

\* lines 81-87: the owner's err after the handler has looked at the URL
HandlerErr(old, u) == IF u.error # "" THEN CallbackError(u) ELSE old

\* lines 81-96: the handler sets err on an error callback, answers the
\* browser and schedules the shutdown of the owner's server
HandlerRespond(h) ==
    /\ ~crashed
    /\ h \in inflight
    /\ h.step = "respond"
    /\ err' = [err EXCEPT ![h.owner] = HandlerErr(err[h.owner], h.req.url)]
    /\ responses' = Append(responses,
            [at |-> h.at, owner |-> h.owner, req |-> h.req,
             status |-> HandlerStatus(h.req.url)])
    /\ timers' = [timers EXCEPT ![h.owner] = timers[h.owner] + 1]
    /\ inflight' = inflight \ {h}
    /\ UNCHANGED <<mux, crashed, pc, wg, srv, spc, request, result>>

\* line 96: a timer fires and calls srv.Shutdown, which closes the
\* listener and lets the requests in progress finish
TimerFire(i) ==
    /\ ~crashed
    /\ timers[i] > 0
    /\ timers' = [timers EXCEPT ![i] = timers[i] - 1]
    /\ srv' = [srv EXCEPT ![i] = IF srv[i] = "listening" THEN "closed" ELSE srv[i]]
    /\ UNCHANGED <<mux, crashed, pc, wg, spc, request, err, inflight, responses, result>>

\* lines 100-104: ListenAndServe returns http.ErrServerClosed once the
\* server has been shut down; err is left alone and wg.Done() runs
ServeReturn(i) ==
    /\ ~crashed
    /\ spc[i] = "serving"
    /\ srv[i] = "closed"
    /\ spc' = [spc EXCEPT ![i] = "done"]
    /\ wg' = [wg EXCEPT ![i] = 0]
    /\ UNCHANGED <<mux, crashed, pc, srv, request, err, timers, inflight, responses, result>>

\* lines 107-109: wg.Wait() is over; return request, err.  The result
\* also records how many handler calls were still in progress.
Return(i) ==
    /\ ~crashed
    /\ pc[i] = "waiting"
    /\ wg[i] = 0
    /\ pc' = [pc EXCEPT ![i] = "returned"]
    /\ result' = [result EXCEPT ![i] =
            [returned |-> TRUE, request |-> request[i], err |-> err[i],
             pending |-> Cardinality({h \in inflight : h.owner = i})]]
    /\ UNCHANGED <<mux, crashed, wg, srv, spc, request, err, timers, inflight, responses>>

----------------------------------------------------------------------------
(* The Response Verifier as a state machine: a Request that arrived with   *)
(* some response value, on which the caller invokes ParseJARM.             *)

WithResponse(v) == IF v = EmptyStr THEN EmptyMap ELSE ("response" :> v)

InitJARM ==
    /\ IdleCallback
    /\ IdleAuthState
    /\ \E q \in QueryResponses, f \in FormResponses :
          r = [JARM |-> EmptyMap,
               Query |-> [k \in DOMAIN WithResponse(q) |-> q],
               Form |-> [k \in DOMAIN WithResponse(f) |-> f]]
    /\ calls = <<>>

CallParseJARM(sk, ek) ==
    /\ Len(calls) < MaxCalls
    /\ LET o == ParseJARM(r, sk, ek)
       IN /\ r' = [r EXCEPT !.JARM = o.JARM]
          /\ calls' = Append(calls,
                [sk |-> sk, ek |-> ek, response |-> Get(r, "response"),
                 before |-> r.JARM, after |-> o.JARM,
                 err |-> o.err, log |-> o.log])
    /\ UNCHANGED <<cbVars, authVars>>

NextJARM == \E sk \in KeyArgs, ek \in KeyArgs : CallParseJARM(sk, ek)

SpecJARM == InitJARM /\ [][NextJARM]_vars

----------------------------------------------------------------------------
(* The Callback Listener as a state machine: the process invokes           *)
(* WaitForCallback, each invocation on an address of its own, while        *)
(* browsers send requests to the listening addresses.                      *)

IdleJARM ==
    /\ r = [JARM |-> EmptyMap, Query |-> EmptyMap, Form |-> EmptyMap]
    /\ calls = <<>>

InitCallback == IdleCallback /\ IdleJARM /\ IdleAuthState

NextCallback ==
    \/ \E i \in Invocations : Register(i) /\ UNCHANGED <<jarmVars, authVars>>
    \/ \E i \in Invocations : GoServe(i) /\ UNCHANGED <<jarmVars, authVars>>
    \/ \E i \in Invocations : ListenOK(i) /\ UNCHANGED <<jarmVars, authVars>>
    \/ \E i \in Invocations : ListenFail(i) /\ UNCHANGED <<jarmVars, authVars>>
    \/ \E i \in Invocations, req \in HTTPRequests : Arrive(i, req) /\ UNCHANGED <<jarmVars, authVars>>
    \/ \E h \in inflight : HandlerCapture(h) /\ UNCHANGED <<jarmVars, authVars>>
    \/ \E h \in inflight : HandlerRespond(h) /\ UNCHANGED <<jarmVars, authVars>>
    \/ \E i \in Invocations : TimerFire(i) /\ UNCHANGED <<jarmVars, authVars>>
    \/ \E i \in Invocations : ServeReturn(i) /\ UNCHANGED <<jarmVars, authVars>>
    \/ \E i \in Invocations : Return(i) /\ UNCHANGED <<jarmVars, authVars>>

SpecCallback == InitCallback /\ [][NextCallback]_vars

\* The same machine with its scheduling: a started goroutine runs, the
\* listener either binds or fails, a handler that was called runs to its
\* end, a scheduled timer fires, and ListenAndServe and wg.Wait return
\* once they can.  Calls of WaitForCallback and requests of browsers are
\* free to happen or not.
FairnessCallback ==
    /\ \A i \in Invocations :
          /\ WF_vars(GoServe(i) /\ UNCHANGED <<jarmVars, authVars>>)
          /\ WF_vars((ListenOK(i) \/ ListenFail(i)) /\ UNCHANGED <<jarmVars, authVars>>)
          /\ WF_vars(TimerFire(i) /\ UNCHANGED <<jarmVars, authVars>>)
          /\ WF_vars(ServeReturn(i) /\ UNCHANGED <<jarmVars, authVars>>)
          /\ WF_vars(Return(i) /\ UNCHANGED <<jarmVars, authVars>>)
    /\ WF_vars(\E h \in inflight :
                  (HandlerCapture(h) \/ HandlerRespond(h)) /\ UNCHANGED <<jarmVars, authVars>>)

FairSpecCallback == InitCallback /\ [][NextCallback]_vars /\ FairnessCallback

----------------------------------------------------------------------------
(* The Client Authenticator and Token Exchanger as a state machine: a      *)
(* Request under construction on which the caller invokes                  *)
(* AuthenticateClient, or a call of RequestToken, which builds a Request   *)
(* of its own.  The two work on separate Requests, so a behaviour follows  *)
(* one or the other.                                                       *)

JwtMethods == {ClientSecretJwtAuthMethod, PrivateKeyJwtAuthMethod}
TLSMethods == {TLSClientAuthMethod, SelfSignedTLSAuthMethod}

\* the environment of one AuthenticateClient call: whether signing works
\* (it is only attempted by the JWT methods) and the transport of hc
\* (only looked at by the TLS methods)
SignOutcomes(m) == IF m \in JwtMethods THEN BOOLEAN ELSE {TRUE}
TransportsFor(m) == IF m \in TLSMethods THEN Transports ELSE {"not_http_transport"}

InitAuth ==
    /\ IdleJARM
    /\ IdleCallback
    /\ \E code \in {"", "abc123"} :
          areq = [ZeroRequest EXCEPT !.Form =
                    IF code = "" THEN FormSet(NoForm, "grant_type", "client_credentials")
                    ELSE FormSet(FormSet(NoForm, "grant_type", "authorization_code"), "code", code)]
    /\ acalls = <<>>
    /\ tok = NoTokenCall

CallAuthenticateClient(cconfig, signs, transport) ==
    /\ Len(acalls) < MaxAuthCalls
    /\ ~tok.called
    /\ LET o == AuthenticateClient(areq, Endpoint, MTLSEndpoint, cconfig, signs, transport)
       IN /\ areq' = o.req
          /\ acalls' = Append(acalls,
                [cconfig |-> cconfig, signs |-> signs, transport |-> transport,
                 before |-> areq, after |-> o.req, endpoint |-> o.endpoint,
                 err |-> o.err, panic |-> o.panic])
    /\ UNCHANGED tok

CallRequestToken(cconfig, tokenEndpoint, params, reply) ==
    /\ ~tok.called
    /\ acalls = <<>>
    /\ tok' = [called |-> TRUE, cconfig |-> cconfig, reply |-> reply,
               out |-> RequestToken(cconfig, tokenEndpoint, params, reply)]
    /\ UNCHANGED <<areq, acalls>>

NextAuth ==
    \/ \E cconfig \in {c \in ClientConfigs : c.GrantType = FormGet(areq.Form, "grant_type")} :
       \E signs \in SignOutcomes(cconfig.AuthMethod),
          transport \in TransportsFor(cconfig.AuthMethod) :
          CallAuthenticateClient(cconfig, signs, transport) /\ UNCHANGED <<jarmVars, cbVars>>
    \/ \E cconfig \in ClientConfigs, tokenEndpoint \in {Endpoint, BadEndpoint},
          params \in RequestTokenParams, reply \in HTTPReplies :
          CallRequestToken(cconfig, tokenEndpoint, params, reply) /\ UNCHANGED <<jarmVars, cbVars>>

SpecAuth == InitAuth /\ [][NextAuth]_vars

----------------------------------------------------------------------------
(* Properties of the Response Verifier, checked under SpecJARM *)

LastCall == calls[Len(calls)]

\* the key that signed the token a response string carries (itself, or
\* the one inside the encryption) and the claims of that token
IsToken(s) == s.form = "jws" \/ (s.form = "jwe" /\ s.cty = "JWT" /\ s.innerOK)
Contains(log, step) == \E i \in 1..Len(log) : log[i] = step

\* C1: ParseJARM fails closed.  A call whose response value is present
\* returns success only if a signing key was supplied, the response is a
\* token whose (possibly inner) signature is by that key, and the
\* signature check was performed; so a missing or wrong signing key always
\* gives an error, never a success with an empty claim map.
C1_FailsClosed ==
    \A i \in 1..Len(calls) :
        LET c == calls[i] IN
        (c.response # EmptyStr /\ c.err = NoError) =>
            /\ c.sk # NoKey
            /\ IsToken(c.response)
            /\ c.response.sigKey = c.sk
            /\ Contains(c.log, "verify")
            /\ c.after = ClaimsOf(c.response.claims)

\* C1 witness: a signed-only token checked with a wrong key, and one
\* checked with no key, both refused
C1_Witness ==
    /\ Len(calls) = 2
    /\ calls[1].response.form = "jws"
    /\ calls[1].sk \in Keys /\ calls[1].sk # calls[1].response.sigKey
    /\ calls[1].err.kind = "verify"
    /\ calls[2].response.form = "jws"
    /\ calls[2].sk = NoKey
    /\ calls[2].err.kind = "no signing key"

\* C2: a nested token with no encryption key supplied gives the
\* missing-encryption-key error, with or without a signing key, and
\* neither decryption nor a signature check has been performed.
C2_NoEncryptionKeyFirst ==
    \A i \in 1..Len(calls) :
        LET c == calls[i] IN
        (ParseSignedAndEncrypted(c.response).ok /\ c.ek = NoKey) =>
            /\ c.err = Err("no encryption key", <<>>)
            /\ c.log = <<"parseNested">>

\* C2 witness: a nested token, neither key supplied
C2_Witness ==
    /\ Len(calls) >= 1
    /\ LastCall.response.form = "jwe" /\ LastCall.response.cty = "JWT"
    /\ LastCall.ek = NoKey /\ LastCall.sk = NoKey
    /\ LastCall.err.kind = "no encryption key"

\* C3: the claim map is all-or-nothing.  After any call that returns an
\* error the map is empty, whatever it held before; after a successful
\* call it is exactly the verified token's claims (empty when there was
\* no response to verify).
C3_AllOrNothing ==
    /\ Len(calls) > 0 => r.JARM = LastCall.after
    /\ \A i \in 1..Len(calls) :
        LET c == calls[i] IN
        /\ c.err # NoError => c.after = EmptyMap
        /\ (c.err = NoError /\ c.response # EmptyStr) =>
                c.after = ClaimsOf(c.response.claims)
        /\ (c.err = NoError /\ c.response = EmptyStr) => c.after = EmptyMap

\* C3 witness: a failing call on a Request that held claims
C3_Witness ==
    /\ Len(calls) = 2
    /\ calls[2].before # EmptyMap
    /\ calls[2].err # NoError
    /\ r.JARM = EmptyMap

\* C4: a second ParseJARM with the same keys, right after a successful
\* one, leaves the same claim map as the first.
C4_Idempotent ==
    \A i \in 1..(Len(calls) - 1) :
        (/\ calls[i].err = NoError
         /\ calls[i + 1].sk = calls[i].sk
         /\ calls[i + 1].ek = calls[i].ek)
        => calls[i + 1].after = calls[i].after

\* C5: a response that parses neither as a nested nor as a signed token
\* gives one error holding both parse failures, the nested one and the
\* flat one, and no decryption or signature check is made.
C5_CombinedParseError ==
    \A i \in 1..Len(calls) :
        LET c == calls[i]
            n == ParseSignedAndEncrypted(c.response)
            f == ParseSigned(c.response)
        IN (c.response # EmptyStr /\ ~n.ok /\ ~f.ok) =>
            /\ c.err.kind = "parse"
            /\ c.err.causes = <<n.err, f.err>>
            /\ c.log = <<"parseNested", "parseSigned">>

\* C5 witness: an encrypted token that is not a JWT, with both keys given
C5_Witness ==
    /\ Len(calls) >= 1
    /\ LastCall.response.form = "jwe" /\ LastCall.response.cty = "other"
    /\ LastCall.sk \in Keys /\ LastCall.ek \in Keys
    /\ LastCall.err.kind = "parse"
    /\ Len(LastCall.err.causes) = 2

----------------------------------------------------------------------------
(* Properties of the Callback Listener, checked under SpecCallback *)

\* the responses written by the callback handler of invocation i
HandledBy(i) == {k \in 1..Len(responses) : responses[k].owner = i}

\* C6: for every request the callback handler of an invocation answered:
\* with a non-empty error parameter the browser got 400 and
\* WaitForCallback returned the Error made of the request's error
\* parameters; otherwise the browser got 200 and WaitForCallback returned
\* no error and the request's method and URL.  (Stated for the returns
\* at which no handler call is still in progress.)
C6_CallbackResult ==
    \A i \in Invocations :
        (result[i].returned /\ result[i].pending = 0) =>
            \A k \in HandledBy(i) :
                LET q == responses[k].req IN
                IF q.url.error # ""
                THEN /\ responses[k].status = 400
                     /\ result[i].err = CallbackError(q.url)
                ELSE /\ responses[k].status = 200
                     /\ result[i].err = NilError
                     /\ result[i].request = [method |-> q.method, url |-> q.url]

\* C7: the callback handler of one invocation serves at most one request.
C7_ServesAtMostOnce ==
    \A i \in Invocations : Cardinality(HandledBy(i)) <= 1

\* C8: invocations on distinct addresses are independent: none fails to
\* register its handler, and a handler only ever sees requests that were
\* delivered to its own invocation's address.
C8_Independent ==
    /\ \A i \in Invocations : pc[i] # "panicked"
    /\ \A h \in inflight : h.owner = h.at
    /\ \A k \in 1..Len(responses) : responses[k].owner \in {0, responses[k].at}

----------------------------------------------------------------------------
(* Properties of the Client Authenticator and Token Exchanger, checked     *)
(* under SpecAuth *)

\* the form fields of each method's row in the table of methods
RowFields(m) ==
    CASE m = ClientSecretPostAuthMethod -> {"client_id", "client_secret"}
      [] m \in JwtMethods -> {"client_assertion_type", "client_assertion"}
      [] m \in TLSMethods -> {"client_id"}
      [] OTHER -> {}

\* the value the row gives a field
RowValue(cconfig, f) ==
    CASE f = "client_id" -> cconfig.ClientID
      [] f = "client_secret" -> cconfig.ClientSecret
      [] f = "client_assertion_type" -> JwtBearerClientAssertion
      [] OTHER -> IF cconfig.AuthMethod = ClientSecretJwtAuthMethod
                  THEN "assertion.hmac" ELSE "assertion.jwk"

RowIsSet(c) ==
    /\ DOMAIN c.after.Form = DOMAIN c.before.Form \cup RowFields(c.cconfig.AuthMethod)
    /\ \A f \in RowFields(c.cconfig.AuthMethod) : c.after.Form[f] = RowValue(c.cconfig, f)

\* C9 as stated, read for the calls that return no error: the call sets
\* exactly the fields of its method's row, and every form field present
\* before the call is unchanged.
C9_AsStated ==
    \A i \in 1..Len(acalls) :
        acalls[i].err = "" =>
            /\ RowIsSet(acalls[i])
            /\ \A f \in DOMAIN acalls[i].before.Form :
                  acalls[i].after.Form[f] = acalls[i].before.Form[f]

\* C9 amended: a call that returns no error sets exactly the fields of
\* its method's row, to the configured values, overwriting a row field
\* that was present, and leaves every other form field unchanged; a call
\* that returns a signing error leaves the whole form unchanged.
C9_RowFieldsSet ==
    \A i \in 1..Len(acalls) :
        LET c == acalls[i] IN
        IF c.err # ""
        THEN c.after.Form = c.before.Form
        ELSE /\ RowIsSet(c)
             /\ \A f \in DOMAIN c.before.Form \ RowFields(c.cconfig.AuthMethod) :
                   c.after.Form[f] = c.before.Form[f]

\* C9 witness: client_secret_post on a Request that already carries
\* another client's client_id; the grant type stays
C9_Witness ==
    /\ Len(acalls) = 2
    /\ acalls[2].cconfig.AuthMethod = ClientSecretPostAuthMethod
    /\ "client_id" \in DOMAIN acalls[2].before.Form
    /\ acalls[2].before.Form["client_id"] # acalls[2].cconfig.ClientID
    /\ areq.Form["client_id"] = acalls[2].cconfig.ClientID
    /\ areq.Form["client_secret"] = acalls[2].cconfig.ClientSecret
    /\ areq.Form["grant_type"] = acalls[2].before.Form["grant_type"]

BasicHeader == "Authorization: Basic"

\* C10: the authentication material of a Request belongs to one method.
\* After any AuthenticateClient calls the form never holds client_secret
\* together with client_assertion; the token request RequestToken builds
\* never does either, carries a Basic Authorization header exactly when
\* the method is client_secret_basic, and then has neither client_id nor
\* client_secret in its form.
C10_SingleMethod ==
    /\ ~({"client_secret", "client_assertion"} \subseteq DOMAIN areq.Form)
    /\ (tok.called /\ tok.out.request.Method = "POST") =>
          LET q == tok.out.request IN
          /\ ~({"client_secret", "client_assertion"} \subseteq DOMAIN q.Form)
          /\ (BasicHeader \in q.Headers) <=> (tok.cconfig.AuthMethod = ClientSecretBasicAuthMethod)
          /\ (tok.cconfig.AuthMethod = ClientSecretBasicAuthMethod) =>
                DOMAIN q.Form \cap {"client_id", "client_secret"} = {}

\* the form fields that authenticate the client
AuthFields == {"client_id", "client_secret", "client_assertion_type", "client_assertion"}

\* C11: RequestToken layers in the Client Authenticator.  The token
\* request it sends carries exactly the authentication form fields that
\* AuthenticateClient sets for the configured method, with the same
\* values, and goes to the endpoint AuthenticateClient returns: the
\* mutual-TLS token endpoint for the TLS methods, the ordinary token
\* endpoint otherwise.
C11_LayersAuthenticator ==
    (tok.called /\ tok.out.sent = 1) =>
        LET q == tok.out.request
            a == AuthenticateClient(ZeroRequest, Endpoint, MTLSEndpoint, tok.cconfig,
                                    TRUE, "not_http_transport")
        IN /\ q.Method = "POST"
           /\ DOMAIN q.Form \cap AuthFields = DOMAIN a.req.Form
           /\ \A f \in DOMAIN a.req.Form : q.Form[f] = a.req.Form[f]
           /\ q.URL = a.endpoint

\* the TokenResponse fields a body's members name
BodyFields(body) ==
    LET m == body.members
    IN [AccessToken |-> IF "access_token" \in DOMAIN m THEN m["access_token"].str ELSE "",
        ExpiresIn |-> IF "expires_in" \in DOMAIN m THEN m["expires_in"].num ELSE 0,
        TokenType |-> IF "token_type" \in DOMAIN m THEN m["token_type"].str ELSE ""]

\* a well-formed body whose members have the types of the fields they name
FieldsTyped(body) ==
    LET m == body.members
    IN /\ \A f \in {"access_token", "token_type"} \cap DOMAIN m : m[f].type = "string"
       /\ \A f \in {"expires_in"} \cap DOMAIN m : m[f].type = "number"

AnsweredWith(status) ==
    tok.called /\ tok.out.sent = 1 /\ tok.reply.kind = "reply" /\ tok.reply.status = status

\* the parts of C12 about a reply other than 200 and about malformed JSON
C12_Errors ==
    /\ (tok.called /\ tok.out.sent = 1 /\ tok.reply.kind = "reply" /\ tok.reply.status # 200) =>
          /\ tok.out.err = TokenErr("provider", tok.reply.body.members["error"].str)
          /\ tok.out.response = NoTokenResponse
    /\ (AnsweredWith(200) /\ tok.reply.body.readable /\ ~tok.reply.body.wellFormed) =>
          /\ tok.out.err.kind = "parse"
          /\ tok.out.err # TokenErr("transport", "")
    /\ (tok.called /\ tok.reply.kind = "transport_error" /\ tok.out.sent = 1) =>
          tok.out.err.kind = "transport"

\* C12 as stated: a 200 reply with a well-formed JSON body gives no error
\* and a TokenResponse holding exactly the fields of the body; a reply
\* other than 200 gives the provider Error parsed from the reply and a
\* TokenResponse with no field populated; a 200 reply with malformed JSON
\* gives a parse error, which differs from a transport error.
C12_AsStated ==
    /\ (AnsweredWith(200) /\ tok.reply.body.readable /\ tok.reply.body.wellFormed) =>
          /\ tok.out.err = NoTokenErr
          /\ tok.out.response = BodyFields(tok.reply.body)
    /\ C12_Errors

\* C12 amended: a 200 reply whose body is well-formed JSON with members
\* of the types of the TokenResponse fields gives no error and a
\* TokenResponse holding exactly the fields of the body; a 200 reply whose
\* body is malformed JSON, or well-formed JSON with a member of the wrong
\* type, gives a parse error, which differs from a transport error; a
\* reply other than 200 gives the provider Error parsed from the reply
\* and a TokenResponse with no field populated.
C12_ClassifiesReply ==
    /\ (AnsweredWith(200) /\ tok.reply.body.readable /\ tok.reply.body.wellFormed
            /\ FieldsTyped(tok.reply.body)) =>
          /\ tok.out.err = NoTokenErr
          /\ tok.out.response = BodyFields(tok.reply.body)
    /\ (AnsweredWith(200) /\ tok.reply.body.readable /\ tok.reply.body.wellFormed
            /\ ~FieldsTyped(tok.reply.body)) =>
          /\ tok.out.err.kind = "parse"
          /\ tok.out.err # TokenErr("transport", "")
    /\ C12_Errors

\* C12 witness: a 200 reply whose body is well-formed JSON with
\* expires_in given as a string, reported as a parse error
C12_Witness ==
    /\ AnsweredWith(200)
    /\ tok.reply.body = MistypedBody
    /\ tok.out.err.kind = "parse"
    /\ tok.out.response.AccessToken = "T"

\* C13: when signing the client assertion fails under client_secret_jwt
\* or private_key_jwt, AuthenticateClient returns that error and leaves
\* the Request as it was: no client_assertion_type or client_assertion
\* field is added, and the Request's signing Key is unchanged.
C13_SignFailureLeavesState ==
    \A i \in 1..Len(acalls) :
        LET c == acalls[i] IN
        (c.cconfig.AuthMethod \in JwtMethods /\ ~c.signs) =>
            /\ c.err = "sign failed"
            /\ c.after.Form = c.before.Form
            /\ c.after.Key = c.before.Key

C15_UnknownIsNoOp ==
    \A i \in 1..Len(acalls) :
        LET c == acalls[i] IN
        /\ c.cconfig.AuthMethod \in {NoneAuthMethod, "unknown_method"} =>
              /\ c.after = c.before
              /\ c.err = ""
              /\ ~c.panic
              /\ c.endpoint = Endpoint
        /\ ~c.panic =>
              /\ c.endpoint \in {Endpoint, MTLSEndpoint}
              /\ (c.endpoint = MTLSEndpoint) <=> (c.cconfig.AuthMethod \in TLSMethods)

\* C15 witness: an unknown method on a Request that already holds a
\* signing Key and assertion fields, left as it was
C15_Witness ==
    /\ Len(acalls) = 2
    /\ acalls[1].cconfig.AuthMethod = PrivateKeyJwtAuthMethod
    /\ acalls[1].err = ""
    /\ acalls[2].cconfig.AuthMethod = "unknown_method"
    /\ acalls[2].before.Key = "jwk"
    /\ areq = acalls[2].before
    /\ acalls[2].endpoint = Endpoint

----------------------------------------------------------------------------
(* Properties of the Callback Listener over time, checked under            *)
(* FairSpecCallback *)

\* C16: once the callback handler of an invocation has answered a
\* request, the shutdown eventually fires and WaitForCallback eventually
\* returns; whenever it has returned, its server no longer accepts
\* connections; and it only returns after its handler answered a request
\* at the callback path (or the listener failed), never because of
\* requests to other paths.
C16_ShutdownAndReturn ==
    /\ \A i \in Invocations :
          (HandledBy(i) # {}) ~> (srv[i] = "closed" /\ result[i].returned)
    /\ [](\A i \in Invocations : result[i].returned => srv[i] \in {"closed", "failed"})
    /\ [](\A i \in Invocations :
            result[i].returned => (HandledBy(i) # {} \/ srv[i] = "failed"))

\* the same with the first part stated for a process that has not
\* panicked
C16_UnlessPanicked ==
    /\ \A i \in Invocations :
          (HandledBy(i) # {}) ~> ((srv[i] = "closed" /\ result[i].returned) \/ crashed)
    /\ [](\A i \in Invocations : result[i].returned => srv[i] \in {"closed", "failed"})
    /\ [](\A i \in Invocations :
            result[i].returned => (HandledBy(i) # {} \/ srv[i] = "failed"))

\* C17: the deferred shutdown neither blocks the handler nor races with
\* the caller's result.  A handler call that has captured the request can
\* always go on to answer and return, whatever the state of the server;
\* and once WaitForCallback has handed request and err back, no handler
\* call that writes them is still in progress and they keep the values
\* that were returned.
C17_NoWriteAfterReturn ==
    /\ \A h \in inflight :
          (h.step = "respond" /\ ~crashed) => ENABLED HandlerRespond(h)
    /\ \A i \in Invocations :
          result[i].returned =>
              /\ \A h \in inflight : h.owner # i
              /\ request[i] = result[i].request
              /\ err[i] = result[i].err

\* C20: when the listener of an invocation cannot start, WaitForCallback
\* does not block forever: it eventually returns, and what it returns is
\* the server's error, with no callback handled.
C20_ListenFailureReturns ==
    /\ \A i \in Invocations : (srv[i] = "failed") ~> result[i].returned
    /\ [](\A i \in Invocations :
            (result[i].returned /\ srv[i] = "failed") =>
                /\ result[i].err = ListenError
                /\ HandledBy(i) = {})

\* the same with the first part stated for a process that has not
\* panicked
C20_UnlessPanicked ==
    /\ \A i \in Invocations : (srv[i] = "failed") ~> (result[i].returned \/ crashed)
    /\ [](\A i \in Invocations :
            (result[i].returned /\ srv[i] = "failed") =>
                /\ result[i].err = ListenError
                /\ HandledBy(i) = {})

----------------------------------------------------------------------------
(* Further properties of the Response Verifier, checked under SpecJARM *)

JARMMatch(jarm, key) == key \in DOMAIN jarm /\ jarm[key].type = "string"
QueryMatch(query, key) == key \in DOMAIN query /\ query[key] # EmptyStr
FormMatch(form, key) == key \in DOMAIN form

\* what C18 says a lookup of key returns, given the three sources
FirstMatch(jarm, query, form, key) ==
    CASE JARMMatch(jarm, key) -> jarm[key].s
      [] ~JARMMatch(jarm, key) /\ QueryMatch(query, key) -> query[key]
      [] ~JARMMatch(jarm, key) /\ ~QueryMatch(query, key) /\ FormMatch(form, key) -> form[key]
      [] OTHER -> EmptyStr

\* C18: Get(key) returns the first match in the order claim map (a string
\* under the key), URL query, form; a lower source is used only when no
\* higher one has a match.  So does the `response` lookup of every
\* ParseJARM call, on the claim map the Request held before the call.
C18_FirstMatchWins ==
    /\ \A key \in {"response", "code"} :
          Get(r, key) = FirstMatch(r.JARM, r.Query, r.Form, key)
    /\ \A i \in 1..Len(calls) :
          calls[i].response = FirstMatch(calls[i].before, r.Query, r.Form, "response")

\* C18 witness: a second ParseJARM on a Request whose claim map, query
\* and form all hold a `response`, three different values; the claim
\* map's one was looked up
C18_Witness ==
    /\ Len(calls) = 2
    /\ JARMMatch(calls[2].before, "response")
    /\ QueryMatch(r.Query, "response")
    /\ FormMatch(r.Form, "response")
    /\ calls[2].before["response"].s # r.Query["response"]
    /\ r.Query["response"] # r.Form["response"]
    /\ calls[2].before["response"].s # r.Form["response"]
    /\ calls[2].response = calls[2].before["response"].s

\* C19: the encryption key is consulted only for a response that parses
\* as a nested token.  For any other response no decryption is attempted
\* and the call ends as it would with no encryption key; a signed-only
\* response whose signature is by the supplied signing key is accepted,
\* with its claims, whether or not an encryption key was supplied.
C19_EncryptionKeyOnlyForNested ==
    \A i \in 1..Len(calls) :
        LET c == calls[i]
            o == ParseJARM([r EXCEPT !.JARM = c.before], c.sk, NoKey)
        IN ~ParseSignedAndEncrypted(c.response).ok =>
              /\ ~Contains(c.log, "decrypt")
              /\ c.after = o.JARM /\ c.err = o.err /\ c.log = o.log
              /\ (c.response.form = "jws" /\ c.sk = c.response.sigKey) =>
                    /\ c.err = NoError
                    /\ c.after = ClaimsOf(c.response.claims)

\* C19 witness: a signed-only response accepted by a call that was given
\* an encryption key as well
C19_Witness ==
    /\ Len(calls) >= 1
    /\ LastCall.response.form = "jws"
    /\ LastCall.ek \in Keys
    /\ LastCall.sk = LastCall.response.sigKey
    /\ LastCall.err = NoError
    /\ r.JARM = ClaimsOf(LastCall.response.claims)
    /\ r.JARM # EmptyMap

====
